---------------------------- MODULE Spec2Model ----------------------------
(***************************************************************************)
(* A model of the two programs of the repository:                          *)
(*                                                                         *)
(*   - the bias analysis service (server/services/bias_analysis/main.py,   *)
(*     with the alternate formatter of utils.py): the POST /analyze        *)
(*     handler, its preprocessing of the protected attributes and the      *)
(*     metric formatters;                                                  *)
(*   - the model-update collector (scripts/model_updates_scraper.py): the  *)
(*     feed loop of scrape_model_updates and the upsert of insert_into_db. *)
(*                                                                         *)
(* Five specifications share the variables: SpecAnalyze (one /analyze      *)
(* request), SpecFormat (the two formatters applied to a metrics dict),    *)
(* SpecCollector (one run of the collector against a database),            *)
(* SpecUpload (one call of /analyze/file, /analyze/folder or               *)
(* run_bias_analysis) and SpecEncode (the encoding of one column that is   *)
(* no protected attribute).                                                *)
(***************************************************************************)
EXTENDS Integers, Sequences, FiniteSets, TLC

VARIABLES
    \* ---- bias analysis service: one POST /analyze request
    pc,          \* "idle" | "received" | "preprocess" | "dataset" | "responded"
    request,     \* the BiasAnalysisRequest being handled (NoRequest when idle)
    response,    \* the HTTP response of the handler (NoResponse before it)
    cur_df,      \* the handler's working DataFrame
    attr_i,      \* position of preprocess_data's loop over the attributes
    built_dataset, \* the frame the BinaryLabelDataset was built from
    \* ---- metric formatters
    fpc,         \* "idle" | "ready" | "service" | "formatted"
    metrics,     \* the metrics dict, as a sequence of <<name, score>> items
    svcOut,      \* outcome of main.format_results_for_output(metrics)
    utilOut,     \* outcome of utils.format_results_for_output(metrics)
    \* ---- model-update collector
    cpc,         \* position of main(): "idle" | "connected" | "scraping" |
                 \* "executed" | "done" | "aborted"
    cfg,         \* --days, --max, the clock and the host's UTC offset
    models,      \* rows of frontier_models read by get_models_from_db
    pair,        \* index of the next (model, update_type) pair to fetch
    results,     \* the records list built by scrape_model_updates
    log,         \* the last feed handled: its entries and the positions kept
    pending,     \* the connection's open transaction: its view of the table
    table,       \* committed rows of frontier_model_updates
    table0,      \* the committed rows when the run connected
    \* ---- file and folder uploads: one call of analyze_file,
    \*      analyze_folder or run_bias_analysis
    upc,         \* "idle" | "received" | "reading" | "listing" | "call" |
                 \* "polling" | "run_until_complete" | "responded" | "cancelled"
    upload,      \* the call's arguments (NoUpload when idle)
    uresp,       \* the response, or the list run_bias_analysis returned
    tmpdir,      \* the TemporaryDirectory and what was put in it
    idx,         \* position of the loop over os.listdir(tmpdir)
    uresults,    \* the results list of analyze_folder
    task,        \* the future of asyncio.ensure_future: "none" | "pending" | "done"
    tick,        \* parity of the time.sleep(0.01) calls of the polling loop
    \* ---- encoding of a column that is no protected attribute
    epc,         \* "idle" | "loaded" | "preprocessed" | "mapped" | "refused" |
                 \* "encoded"
    column,      \* the column as the request gave it
    series,      \* the column as the service holds it: its dtype and values
    rows_kept    \* the rows of the request still in the frame, by position

svcVars  == <<pc, request, response, cur_df, attr_i, built_dataset>>
fmtVars  == <<fpc, metrics, svcOut, utilOut>>
colVars  == <<cpc, cfg, models, pair, results, log, pending, table, table0>>
upVars   == <<upc, upload, uresp, tmpdir, idx, uresults, task, tick>>
encVars  == <<epc, column, series, rows_kept>>
vars     == <<pc, request, response, cur_df, attr_i, built_dataset, fpc, metrics, svcOut, utilOut,
              cpc, cfg, models, pair, results, log, pending, table, table0,
              upc, upload, uresp, tmpdir, idx, uresults, task, tick,
              epc, column, series, rows_kept>>

-----------------------------------------------------------------------------
(* Generic helpers on sequences.                                           *)

Range(s) == {s[i] : i \in DOMAIN s}

\* All sequences over S of length 0..n.
SeqsUpTo(S, n) == UNION {[1..k -> S] : k \in 0..n}

\* pandas Series.unique(): the distinct values in order of first appearance.
RECURSIVE Unique(_)
Unique(s) ==
    IF s = <<>> THEN <<>>
    ELSE LET front == Unique(SubSeq(s, 1, Len(s) - 1))
             last  == s[Len(s)]
         IN  IF last \in Range(front) THEN front ELSE Append(front, last)


-----------------------------------------------------------------------------
(* Python values shared by the service.                                    *)

\* The float values a mapped protected attribute column holds (1.0, 0.0 and
\* NaN), written as strings so that a column can hold raw and mapped values.
F1  == "1.0"
F0  == "0.0"
NaN == "nan"

\* fastapi.HTTPException(status_code, detail); detail is a message, kept as
\* the sequence of its parts (literal text, attribute names, values).
HTTPException(status, detail) == [http |-> TRUE, status |-> status, detail |-> detail]

\* Any other Python exception (ValueError, KeyError, a library error).
PyError(detail) == [http |-> FALSE, status |-> 0, detail |-> detail]

\* str(e) as interpolated by the handlers' f"...: {str(e)}".  For an
\* HTTPException this is "<status_code>: <detail>"; for another exception it
\* is the exception's message.
StrExc(e) ==
    IF e.http
    THEN <<IF e.status = 400 THEN "400:" ELSE "500:">> \o e.detail
    ELSE e.detail

Return(v) == [ok |-> TRUE, val |-> v]
Raise(e)  == [ok |-> FALSE, exc |-> e]

-----------------------------------------------------------------------------
(* DataFrames.  A frame is its column names and its rows; a row holds the  *)
(* values of the columns the service itself inspects (the protected        *)
(* attribute columns).  The values of the label and feature columns are    *)
(* only handed to the fairness library.                                    *)

RaceVals == {"A", "B", "C", "D"}
SexVals  == {"X", "Y", "Z"}

\* data is List[Dict[str, Any]]: a raw value can also be a JSON list, here
\* ["A"] and ["B"].
ListVals == {"list(A)", "list(B)"}

\* str(v) as astype(str) applies it: a string is itself, a list is its repr.
Str(v) ==
    IF v = "list(A)" THEN "['A']"
    ELSE IF v = "list(B)" THEN "['B']"
    ELSE v

\* Whether hash(v) succeeds: a list is unhashable.
Hashable(v) == v \notin ListVals

\* A raw value can also be a JSON number: "1" and "2" stand for the numbers
\* 1 and 2, whose str() are the same characters.
IsNumeric(v) == v \in {"1", "2"}
ToNumber(v)  == IF v = "1" THEN 1 ELSE 2

\* Python's ordering of the str() of the values (comparison by code point),
\* smallest first.
ValueOrder == <<"1", "2", "A", "B", "C", "D", "X", "Y", "Z", "['A']", "['B']",
                "a", "b">>

\* sorted(S) for a set S of raw values.
Sorted(S) == SelectSeq(ValueOrder, LAMBDA v : v \in S)

InColumns(df, col) == col \in Range(df.columns)

\* df[attr] as a sequence of values.
Column(df, attr) == [i \in 1..Len(df.rows) |-> df.rows[i][attr]]

\* df[attr] = df[attr].map(f), f given by its value on each value of the
\* column.
MapColumn(df, attr, f) ==
    [df EXCEPT !.rows = [i \in 1..Len(df.rows) |->
                            [df.rows[i] EXCEPT ![attr] = f[df.rows[i][attr]]]]]

\* preprocess_data lines 148-152: df[attr] = df[attr].astype(str) for every
\* protected attribute that is a column.
AsTypeStr(df, protected_attributes) ==
    [df EXCEPT !.rows =
        [i \in 1..Len(df.rows) |->
            [f \in DOMAIN df.rows[i] |->
                IF f \in Range(protected_attributes)
                THEN Str(df.rows[i][f]) ELSE df.rows[i][f]]]]

\* df = df[~df[attr].isna()]; df.reset_index(drop=True)
DropNa(df, attr) ==
    [df EXCEPT !.rows = SelectSeq(df.rows, LAMBDA r : r[attr] # NaN)]

-----------------------------------------------------------------------------
(* main.py: the encoding of a column that is no protected attribute,       *)
(* preprocess_data lines 154-164 and encode_categoricals lines 125-137.    *)

\* pd.to_numeric(s, errors='raise'): the numbers, or ValueError at the
\* first value that is no number.
to_numeric(vals) ==
    IF \A i \in DOMAIN vals : IsNumeric(vals[i])
    THEN Return([i \in DOMAIN vals |-> ToNumber(vals[i])])
    ELSE Raise(PyError(<<"Unable to parse string">>))

\* LabelEncoder.classes_ after fit: np.unique of the values, which sorts
\* them.
classes_(vals) == Sorted(Range(vals))

\* The 0-based position of v in seq.
IndexOf(seq, v) == (CHOOSE k \in DOMAIN seq : seq[k] = v) - 1

\* fit_transform numbering the values in the order of their first
\* appearance.
fit_transform_FirstSeen(vals) ==
    [i \in DOMAIN vals |-> IndexOf(Unique(vals), vals[i])]

\* LabelEncoder().fit_transform(vals): each value's position in classes_.
fit_transform(vals) ==
    [i \in DOMAIN vals |-> IndexOf(classes_(vals), vals[i])]

\* The try/except of lines 156-163 (and of lines 129-136): the numbers if
\* the column converts, the LabelEncoder codes of its astype(str)
\* otherwise.
NumericOrCodes(vals) ==
    IF to_numeric(vals).ok THEN to_numeric(vals).val
    ELSE fit_transform([i \in DOMAIN vals |-> Str(vals[i])])

\* preprocess_data lines 154-164 for one column.
PreprocessColumn(s) == [dtype |-> "int64", vals |-> NumericOrCodes(s.vals)]

\* encode_categoricals lines 127-136 for one column: only a column of dtype
\* object is touched.
encode_categoricals(s) ==
    IF s.dtype = "object"
    THEN [dtype |-> "int64", vals |-> NumericOrCodes(s.vals)]
    ELSE s

\* preprocess_data lines 154-164 on a frame: every column that is no
\* protected attribute becomes its numbers or its codes.
EncodeOthers(df, protected_attributes) ==
    [df EXCEPT !.rows =
        [i \in 1..Len(df.rows) |->
            [f \in DOMAIN df.rows[i] |->
                IF f \in Range(protected_attributes)
                THEN df.rows[i][f]
                ELSE NumericOrCodes(Column(df, f))[i]]]]

-----------------------------------------------------------------------------
(* main.py: find_label_column                                              *)

LABEL_CANDIDATES == <<"label", "true_label", "target">>

find_label_column(df) ==
    LET hits == SelectSeq(LABEL_CANDIDATES, LAMBDA c : InColumns(df, c))
    IN  IF hits # <<>> THEN Return(hits[1])
        ELSE Raise(PyError(<<"No label column found. Expected one of:">>
                           \o LABEL_CANDIDATES))

-----------------------------------------------------------------------------
(* main.py: preprocess_data, the encoding of the protected attributes     *)
(* (lines 166-216).                                                        *)

\* A group_mappings entry is a string or a list of strings (lines 174-177):
\* a string is wrapped in a one-element list.
AsList(e) == IF e.kind = "list" THEN e.vals ELSE {e.val}

\* MapExplicit with the unmapped values put in the unprivileged group
\* instead of NaN.
MapExplicit_UnmappedUnprivileged(x, privileged_values, unprivileged_values) ==
    IF x \in privileged_values THEN F1 ELSE F0

\* The lambda of line 179.
MapExplicit(x, privileged_values, unprivileged_values) ==
    IF x \in privileged_values THEN F1
    ELSE IF x \in unprivileged_values THEN F0
    ELSE NaN

\* The lambda of line 206.
MapFallback(x, privileged_value, unprivileged_value) ==
    IF x = privileged_value THEN F1
    ELSE IF x = unprivileged_value THEN F0
    ELSE NaN

\* Lines 170-194: the branch taken when group_mappings names the attribute.
EncodeWithMapping(df, attr, mapping) ==
    LET privileged_values   == AsList(mapping.privileged)
        unprivileged_values == AsList(mapping.unprivileged)
        mapped == MapColumn(df, attr,
                     [x \in Range(Column(df, attr)) |->
                        MapExplicit(x, privileged_values, unprivileged_values)])
        kept   == IF NaN \in Range(Column(mapped, attr))
                  THEN DropNa(mapped, attr) ELSE mapped
        unique_vals == Unique(Column(kept, attr))
    IN  IF ~(F1 \in Range(unique_vals) /\ F0 \in Range(unique_vals))
        THEN Raise(HTTPException(400,
                 <<"After mapping, both privileged (1.0) and unprivileged (0.0) values must exist in",
                   attr, "Found:">> \o unique_vals))
        ELSE Return(kept)

\* EncodeFallback without the check of line 198 for more than two values.
EncodeFallback_NoCardinalityCheck(df, attr) ==
    LET unique_values == Sorted(Range(Column(df, attr)))
    IN  IF Len(unique_values) < 2
        THEN Raise(HTTPException(400,
                 <<"Not enough unique values for protected attribute", attr, "Found:">>
                 \o unique_values))
        ELSE
        LET mapped == MapColumn(df, attr,
                         [x \in Range(Column(df, attr)) |->
                            MapFallback(x, unique_values[1], unique_values[2])])
        IN  IF NaN \in Range(Column(mapped, attr))
            THEN Raise(HTTPException(400,
                     <<"Found values in", attr, "that are not in fallback mapping:">>
                     \o <<NaN>>))
            ELSE Return(mapped)

\* Lines 196-216: the fallback taken when no mapping names the attribute.
EncodeFallback(df, attr) ==
    LET unique_values == Sorted(Range(Column(df, attr)))
    IN  IF Len(unique_values) > 2
        THEN Raise(HTTPException(400,
                 <<"Protected attribute", attr, "has more than two unique values:">>
                 \o unique_values
                 \o <<"Please provide group_mappings for this attribute">>))
        ELSE IF Len(unique_values) < 2
        THEN Raise(HTTPException(400,
                 <<"Not enough unique values for protected attribute", attr, "Found:">>
                 \o unique_values))
        ELSE
        LET mapped == MapColumn(df, attr,
                         [x \in Range(Column(df, attr)) |->
                            MapFallback(x, unique_values[1], unique_values[2])])
            unique_vals == Unique(Column(mapped, attr))
        IN  IF NaN \in Range(Column(mapped, attr))
            THEN Raise(HTTPException(400,
                     <<"Found values in", attr, "that are not in fallback mapping:">>
                     \o <<NaN>>))
            ELSE IF ~(F1 \in Range(unique_vals) /\ F0 \in Range(unique_vals))
            THEN Raise(HTTPException(400,
                     <<"After fallback mapping, both privileged (1.0) and unprivileged (0.0) values must exist in",
                       attr, "Found:">> \o unique_vals))
            ELSE Return(mapped)

\* EncodeAttribute encoding only the attribute held by the frame's first
\* column and passing over every other one.
EncodeAttribute_FirstColumnOnly(df, attr, group_mappings) ==
    IF ~InColumns(df, attr) \/ attr # df.columns[1] THEN Return(df)
    ELSE IF attr \in DOMAIN group_mappings
    THEN EncodeWithMapping(df, attr, group_mappings[attr])
    ELSE EncodeFallback(df, attr)

\* Lines 168-216: the body of the loop over protected_attributes, for one
\* attribute.  An attribute that is no column of the frame is passed over.
EncodeAttribute(df, attr, group_mappings) ==
    IF ~InColumns(df, attr) THEN Return(df)
    ELSE IF attr \in DOMAIN group_mappings
    THEN EncodeWithMapping(df, attr, group_mappings[attr])
    ELSE EncodeFallback(df, attr)

\* Line 221-223: every exception raised inside preprocess_data, an
\* HTTPException included, is caught and raised again as a 400 whose detail
\* interpolates str(e).
PreprocessError(e) ==
    HTTPException(400, <<"Error preprocessing data:">> \o StrExc(e))

-----------------------------------------------------------------------------
(* Metric scores.  A score is a Python float: a finite value, kept in      *)
(* thousandths (0.8 is 800), or NaN, +Infinity or -Infinity.               *)

Fin(v)   == [kind |-> "fin", v |-> v]
NaNScore == [kind |-> "nan", v |-> 0]
PosInf   == [kind |-> "inf", v |-> 0]
NegInf   == [kind |-> "ninf", v |-> 0]
NoneScore == [kind |-> "none", v |-> 0]     \* Python None

IsFinite(x) == x.kind = "fin"

Abs(n) == IF n < 0 THEN -n ELSE n

\* x > t, x >= t, x <= t and abs(x) < t for a float x and a finite literal
\* t (IEEE 754: every comparison with NaN is false).
FloatGt(x, t) == (x.kind = "fin" /\ x.v > t) \/ x.kind = "inf"
FloatGe(x, t) == (x.kind = "fin" /\ x.v >= t) \/ x.kind = "inf"
FloatLe(x, t) == (x.kind = "fin" /\ x.v <= t) \/ x.kind = "ninf"
FloatAbsLt(x, t) == x.kind = "fin" /\ Abs(x.v) < t

\* metric_name.replace("_", " ").title()
DisplayName(name) ==
    CASE name = "statistical_disparity"        -> "Statistical Disparity"
      [] name = "disparate_impact"             -> "Disparate Impact"
      [] name = "equal_opportunity"            -> "Equal Opportunity"
      [] name = "equal_opportunity_difference" -> "Equal Opportunity Difference"
      [] name = "average_odds_difference"      -> "Average Odds Difference"

-----------------------------------------------------------------------------
(* main.py: the service's formatter.                                       *)

\* The thresholds dict of format_results_for_output (lines 262-266).
ServiceThresholds ==
    ("statistical_disparity" :> 100) @@ ("disparate_impact" :> 800)
    @@ ("equal_opportunity" :> 100)

\* determine_metric_status with an inclusive disparate-impact threshold.
determine_metric_status_Inclusive(score, threshold, metric_type) ==
    IF metric_type = "disparate_impact"
    THEN (IF FloatGe(score, threshold) THEN "pass" ELSE "fail")
    ELSE (IF FloatAbsLt(score, threshold) THEN "pass" ELSE "fail")

\* determine_metric_status(score, threshold, metric_type), lines 248-252.
determine_metric_status(score, threshold, metric_type) ==
    IF metric_type = "disparate_impact"
    THEN (IF FloatGt(score, threshold) THEN "pass" ELSE "fail")
    ELSE (IF FloatAbsLt(score, threshold) THEN "pass" ELSE "fail")

\* safe_float that only replaces NaN and +Infinity.
safe_float_KeepsNegInf(val) ==
    IF val.kind \in {"nan", "inf"} THEN NoneScore ELSE val

\* safe_float(val), lines 254-258.
safe_float(val) ==
    IF val.kind \in {"nan", "inf", "ninf"} THEN NoneScore ELSE val

\* One dict appended by the loop of format_results_for_output.
ServiceEntry(metric_name, score) ==
    [metric_name       |-> DisplayName(metric_name),
     score             |-> safe_float(score),
     threshold         |-> ServiceThresholds[metric_name],
     status            |-> determine_metric_status(score,
                              ServiceThresholds[metric_name], metric_name),
     demographic_group |-> "overall"]

\* format_results_for_output(metrics), lines 260-277; m is the dict's items
\* in insertion order.  thresholds[metric_name] raises KeyError for a name
\* the dict does not hold.
format_results_for_output(m) ==
    IF \E i \in DOMAIN m : m[i][1] \notin DOMAIN ServiceThresholds
    THEN Raise(PyError(<<"KeyError">>))
    ELSE Return([i \in DOMAIN m |-> ServiceEntry(m[i][1], m[i][2])])

-----------------------------------------------------------------------------
(* utils.py: the alternate formatter.                                      *)

\* The thresholds dict of utils.determine_metric_status (lines 56-61).
UtilsThresholds ==
    ("statistical_disparity" :> 100) @@ ("disparate_impact" :> 800)
    @@ ("equal_opportunity_difference" :> 100)
    @@ ("average_odds_difference" :> 100)

\* thresholds.get(metric_name, 0.1), line 63.
UtilsThreshold(metric_name) ==
    IF metric_name \in DOMAIN UtilsThresholds
    THEN UtilsThresholds[metric_name] ELSE 100

\* utils.determine_metric_status without the upper end of the range.
utils_determine_metric_status_NoUpperBound(metric_value, metric_name) ==
    IF metric_name = "disparate_impact"
    THEN (IF FloatGe(metric_value, 800) THEN "pass" ELSE "fail")
    ELSE (IF FloatAbsLt(metric_value, UtilsThreshold(metric_name))
          THEN "pass" ELSE "fail")

\* utils.determine_metric_status(metric_value, metric_name), lines 52-70:
\* the status of the returned (status, threshold) pair.
utils_determine_metric_status(metric_value, metric_name) ==
    IF metric_name = "disparate_impact"
    THEN (IF FloatGe(metric_value, 800) /\ FloatLe(metric_value, 1200)
          THEN "pass" ELSE "fail")
    ELSE (IF FloatAbsLt(metric_value, UtilsThreshold(metric_name))
          THEN "pass" ELSE "fail")

\* One dict appended by the loop of utils.format_results_for_output.
UtilsEntry(metric_name, value) ==
    [metric_name |-> DisplayName(metric_name),
     score       |-> value,
     threshold   |-> UtilsThreshold(metric_name),
     status      |-> utils_determine_metric_status(value, metric_name),
     additional_data |-> [raw_value |-> value,
                          threshold |-> UtilsThreshold(metric_name)]]

\* utils.format_results_for_output(metrics), lines 72-94.
utils_format_results_for_output(m) ==
    Return([i \in DOMAIN m |-> UtilsEntry(m[i][1], m[i][2])])

-----------------------------------------------------------------------------
(* The fairness library (aif360), an external collaborator.  What it does  *)
(* with a frame is not modelled: each call either raises or returns, and a *)
(* metric call returns some pair of floats.                                *)

LibScorePairs ==
    {<<Fin(50), Fin(900)>>, <<Fin(-200), Fin(800)>>, <<NaNScore, PosInf>>}

NoFrame == [columns |-> <<>>, rows |-> <<>>]

-----------------------------------------------------------------------------
(* main.py: create_dataset (lines 385-479).                                *)

\* Lines 400-408: at least two columns, and a label column.
ValidateColumns(df) ==
    IF Len(df.columns) < 2
    THEN Raise(HTTPException(400, <<"Dataset must contain at least two columns">>))
    ELSE IF ~find_label_column(df).ok
    THEN Raise(HTTPException(400,
             <<"Error detecting label column:">> \o StrExc(find_label_column(df).exc)))
    ELSE Return(df)

\* Lines 416-417: an exception of preprocess_data is raised again as a 400.
CreateDatasetPreprocessError(e) ==
    HTTPException(400, <<"Error preprocessing data:">> \o StrExc(e))

\* CheckFirstProtected without the check of lines 448-450.
CheckFirstProtected_NoCheck(df, protected_attributes) == Return(df)

\* Lines 444-456: the check of the first protected attribute that is a
\* column of the frame; the loop breaks after it.
CheckFirstProtected(df, protected_attributes) ==
    LET present == SelectSeq(protected_attributes, LAMBDA a : InColumns(df, a))
    IN  IF present = <<>> THEN Return(df)
        ELSE IF F1 \notin Range(Column(df, present[1]))
                \/ F0 \notin Range(Column(df, present[1]))
        THEN Raise(HTTPException(400,
               <<"Error processing protected attribute", present[1]>>
               \o StrExc(HTTPException(400,
                    <<"After preprocessing, both privileged (1.0) and unprivileged (0.0) values must exist in",
                      present[1], "Found:">> \o Unique(Column(df, present[1]))))))
        ELSE Return(df)

\* Lines 461-474: BinaryLabelDataset(df=..., protected_attribute_names=...)
\* raises when a named protected attribute is no column of the frame, and
\* otherwise when the library rejects the frame (library_ok false).
BinaryLabelDataset(df, protected_attributes, library_ok) ==
    IF (\E i \in DOMAIN protected_attributes : ~InColumns(df, protected_attributes[i]))
       \/ ~library_ok
    THEN Raise(HTTPException(400, <<"Error creating BinaryLabelDataset:", "library error">>))
    ELSE Return(df)

-----------------------------------------------------------------------------
(* main.py: simple_detect_groups (lines 312-383), called on the raw data.  *)
(* df[attr].unique() of line 327 hashes the values: on an unhashable one   *)
(* it raises TypeError, which line 381 turns into a 400.                   *)

simple_detect_groups(df, protected_attributes, group_mappings) ==
    IF ~InColumns(df, protected_attributes[1])
    THEN Raise(HTTPException(400,
             <<"Protected attribute", protected_attributes[1],
               "not found in data columns:">> \o df.columns))
    ELSE IF \E v \in Range(Column(df, protected_attributes[1])) : ~Hashable(v)
    THEN Raise(HTTPException(400,
             <<"Error detecting groups:", "unhashable type: 'list'">>))
    ELSE IF protected_attributes[1] \in DOMAIN group_mappings
    THEN Return([privileged   |-> <<protected_attributes[1], F1>>,
                 unprivileged |-> <<protected_attributes[1], F0>>])
    ELSE IF Len(Unique(Column(df, protected_attributes[1]))) < 2
    THEN Raise(HTTPException(400,
             <<"Not enough unique values for protected attribute",
               protected_attributes[1], "Found:">>
             \o Unique(Column(df, protected_attributes[1]))))
    ELSE Return([privileged   |-> <<protected_attributes[1], F1>>,
                 unprivileged |-> <<protected_attributes[1], F0>>])

-----------------------------------------------------------------------------
(* main.py: calculate_bias_metrics (lines 225-246).  The groups passed in  *)
(* are overwritten by {attr: 1.0} and {attr: 0.0} of the dataset's first   *)
(* protected attribute before the library is called; scores is what the    *)
(* library returns for them.                                               *)

calculate_bias_metrics(dataset, privileged_groups, unprivileged_groups, scores) ==
    << <<"statistical_disparity", scores[1]>>, <<"disparate_impact", scores[2]>> >>

-----------------------------------------------------------------------------
(* The /analyze requests the model submits.  An optional request field is  *)
(* a record: is_none for a field left out.                                 *)

\* Largest number of rows of a request's data.
MaxRows == 3

NoneGroups == [is_none |-> TRUE, val |-> <<>>]
SomeGroups(attr, v) == [is_none |-> FALSE, val |-> <<attr, v>>]

\* group_mappings entries: lists, as in {"privileged": ["A"],
\* "unprivileged": ["B", "C"]}, and single strings.
RaceMappingLists == [privileged   |-> [kind |-> "list", vals |-> {"A"}],
                     unprivileged |-> [kind |-> "list", vals |-> {"B", "C"}]]
RaceMappingStrs  == [privileged   |-> [kind |-> "str", val |-> "A"],
                     unprivileged |-> [kind |-> "str", val |-> "B"]]
SexMapping       == [privileged   |-> [kind |-> "str", val |-> "X"],
                     unprivileged |-> [kind |-> "list", vals |-> {"Y"}]]

\* No group_mappings (None or {}): the function with the empty domain.
NoMappings == <<>>

GroupsOptions ==
    {<<NoneGroups, NoneGroups>>,
     <<SomeGroups("race", "A"), SomeGroups("race", "B")>>}

\* Frames with two protected attribute columns and a label column.
TwoAttrFrames ==
    {[columns |-> <<"race", "sex", "label">>, rows |-> r] :
        r \in SeqsUpTo([race : {"A", "B", "D"}, sex : SexVals], MaxRows)}

\* Frames with one protected attribute column and the column named c.
OneAttrFrames(c) ==
    {[columns |-> <<"race", c>>, rows |-> r] :
        r \in SeqsUpTo([race : RaceVals], MaxRows)}

\* Frames whose protected attribute column holds JSON lists.
ListFrames ==
    {[columns |-> <<"race", "target">>, rows |-> r] :
        r \in SeqsUpTo([race : ListVals \cup {"A"}], 2)}

\* Frames with a single column.
OneColumnFrames ==
    {[columns |-> <<"race">>, rows |-> r] : r \in SeqsUpTo([race : {"A", "B"}], 2)}

MakeRequest(d, attrs, gm, g) ==
    [data |-> d, protected_attributes |-> attrs, group_mappings |-> gm,
     privileged_groups |-> g[1], unprivileged_groups |-> g[2]]

Requests ==
    {MakeRequest(d, <<"race", "sex">>, gm, <<NoneGroups, NoneGroups>>) :
        d \in TwoAttrFrames,
        gm \in {NoMappings, "race" :> RaceMappingLists, "sex" :> SexMapping,
                ("race" :> RaceMappingLists) @@ ("sex" :> SexMapping)}}
    \cup
    {MakeRequest(d, attrs, gm, g) :
        d \in OneAttrFrames("target"),
        attrs \in {<<>>, <<"race">>, <<"age">>},
        gm \in {NoMappings, "race" :> RaceMappingLists, "race" :> RaceMappingStrs},
        g \in GroupsOptions}
    \cup
    {MakeRequest(d, <<"race">>, NoMappings, <<NoneGroups, NoneGroups>>) :
        d \in OneAttrFrames("score") \cup OneColumnFrames}
    \cup
    {MakeRequest(d, <<"race">>, NoMappings, g) :
        d \in ListFrames, g \in GroupsOptions}

NoRequest  == MakeRequest(NoFrame, <<>>, NoMappings, <<NoneGroups, NoneGroups>>)

\* A response: the HTTP status, the detail of an error, the results of a
\* success, and whether the metrics were computed.
NoResponse == [status |-> 0, detail |-> <<>>, results |-> <<>>,
               metrics_computed |-> FALSE]

ErrorResponse(e) ==
    [status |-> e.status, detail |-> e.detail, results |-> <<>>,
     metrics_computed |-> FALSE]

\* The handler of lines 508-510 answering with a 500.
CreateDatasetError_As500(e) ==
    HTTPException(500, <<"Error creating dataset:">> \o StrExc(e))

\* Lines 508-510: an exception of create_dataset is raised again as a 400.
CreateDatasetError(e) ==
    HTTPException(400, <<"Error creating dataset:">> \o StrExc(e))

-----------------------------------------------------------------------------
(* The state machine of one POST /analyze request: analyze_bias (lines     *)
(* 481-556) and, inside it, create_dataset and preprocess_data, one action *)
(* per stage.  cur_df is the handler's working frame, attr_i the position  *)
(* of the preprocessing loop, built_dataset the frame the                  *)
(* BinaryLabelDataset was built from (NoFrame while none is built).        *)

ServiceIdle ==
    /\ pc = "idle" /\ request = NoRequest /\ response = NoResponse
    /\ cur_df = NoFrame /\ attr_i = 0 /\ built_dataset = NoFrame

\* A client posts a request to /analyze.
SubmitRequest ==
    /\ pc = "idle"
    /\ pc' = "received"
    /\ request' \in Requests
    /\ UNCHANGED <<response, cur_df, attr_i, built_dataset>>
    /\ UNCHANGED <<fmtVars, colVars, upVars, encVars>>

\* analyze_bias lines 485-495, create_dataset lines 387-408 and
\* preprocess_data lines 148-164: the request is validated and its data
\* becomes the frame, the protected columns as strings and every other
\* column as numbers or codes.
BeginAnalysis ==
    /\ pc = "received"
    /\ IF request.data.rows = <<>>
       THEN /\ response' = ErrorResponse(HTTPException(400, <<"Empty dataset provided">>))
            /\ pc' = "responded"
            /\ UNCHANGED <<cur_df, attr_i>>
       ELSE IF request.protected_attributes = <<>>
       THEN /\ response' = ErrorResponse(HTTPException(400, <<"No protected attributes specified">>))
            /\ pc' = "responded"
            /\ UNCHANGED <<cur_df, attr_i>>
       ELSE \E v \in {ValidateColumns(request.data)} :
              IF v.ok
              THEN /\ cur_df' = EncodeOthers(
                                    AsTypeStr(request.data, request.protected_attributes),
                                    request.protected_attributes)
                   /\ attr_i' = 1
                   /\ pc' = "preprocess"
                   /\ UNCHANGED response
              ELSE /\ response' = ErrorResponse(CreateDatasetError(v.exc))
                   /\ pc' = "responded"
                   /\ UNCHANGED <<cur_df, attr_i>>
    /\ UNCHANGED <<request, built_dataset>>
    /\ UNCHANGED <<fmtVars, colVars, upVars, encVars>>

\* preprocess_data lines 167-216: one iteration of the loop over the
\* protected attributes.  A raise ends the request: the exception passes
\* through the handlers of lines 221, 416 and 508.
EncodeStep ==
    /\ pc = "preprocess"
    /\ attr_i <= Len(request.protected_attributes)
    /\ \E r \in {EncodeAttribute(cur_df, request.protected_attributes[attr_i],
                                 request.group_mappings)} :
         IF r.ok
         THEN /\ cur_df' = r.val
              /\ attr_i' = attr_i + 1
              /\ UNCHANGED <<pc, response>>
         ELSE /\ response' = ErrorResponse(CreateDatasetError(
                                CreateDatasetPreprocessError(PreprocessError(r.exc))))
              /\ pc' = "responded"
              /\ UNCHANGED <<cur_df, attr_i>>
    /\ UNCHANGED <<request, built_dataset>>
    /\ UNCHANGED <<fmtVars, colVars, upVars, encVars>>

\* create_dataset lines 419-474, after preprocess_data has returned: the
\* check of the first protected attribute and the construction of the
\* BinaryLabelDataset, which the library accepts or rejects.
\* encode_categoricals (line 422) changes nothing here: it passes over the
\* protected attributes, and lines 154-164 left no other column of dtype
\* object.
BuildDataset ==
    /\ pc = "preprocess"
    /\ attr_i > Len(request.protected_attributes)
    /\ \E library_ok \in BOOLEAN :
       \E c \in {CheckFirstProtected(cur_df, request.protected_attributes)} :
       \E b \in {BinaryLabelDataset(cur_df, request.protected_attributes, library_ok)} :
         IF c.ok /\ b.ok
         THEN /\ built_dataset' = b.val
              /\ pc' = "dataset"
              /\ UNCHANGED response
         ELSE /\ response' = ErrorResponse(CreateDatasetError(
                                IF c.ok THEN b.exc ELSE c.exc))
              /\ pc' = "responded"
              /\ UNCHANGED built_dataset
    /\ UNCHANGED <<request, cur_df, attr_i>>
    /\ UNCHANGED <<fmtVars, colVars, upVars, encVars>>

\* analyze_bias lines 512-550: the groups are taken from the request or
\* detected, the library computes the metrics (or raises), and the metrics
\* are formatted into the response.
ComputeMetrics ==
    /\ pc = "dataset"
    /\ pc' = "responded"
    /\ \E g \in {IF request.privileged_groups.is_none \/ request.unprivileged_groups.is_none
                 THEN simple_detect_groups(request.data, request.protected_attributes,
                                           request.group_mappings)
                 ELSE Return([privileged   |-> request.privileged_groups.val,
                              unprivileged |-> request.unprivileged_groups.val])} :
         IF ~g.ok
         THEN response' = ErrorResponse(HTTPException(400,
                              <<"Error in group detection:">> \o StrExc(g.exc)))
         ELSE
           \/ response' = ErrorResponse(HTTPException(500,
                              <<"Error calculating metrics:">>
                              \o StrExc(HTTPException(400,
                                   <<"Error calculating metrics:", "library error">>))))
           \/ \E scores \in LibScorePairs :
              \E out \in {format_results_for_output(
                             calculate_bias_metrics(built_dataset, g.val.privileged,
                                                    g.val.unprivileged, scores))} :
                response' =
                  IF out.ok
                  THEN [status |-> 200,
                        detail |-> <<"Bias analysis completed successfully">>,
                        results |-> out.val,
                        metrics_computed |-> TRUE]
                  ELSE [ErrorResponse(HTTPException(500,
                           <<"Error formatting results:">> \o StrExc(out.exc)))
                        EXCEPT !.metrics_computed = TRUE]
    /\ UNCHANGED <<request, cur_df, attr_i, built_dataset>>
    /\ UNCHANGED <<fmtVars, colVars, upVars, encVars>>

-----------------------------------------------------------------------------
(* The handler as a function of the request: every response analyze_bias   *)
(* can give to it, over what the fairness library may do.                  *)

\* preprocess_data lines 167-216: the loop over the protected attributes
\* from position i on.
RECURSIVE PreprocessFrom(_, _, _, _)
PreprocessFrom(df, protected_attributes, i, group_mappings) ==
    IF i > Len(protected_attributes) THEN Return(df)
    ELSE LET r == EncodeAttribute(df, protected_attributes[i], group_mappings)
         IN  IF r.ok
             THEN PreprocessFrom(r.val, protected_attributes, i + 1, group_mappings)
             ELSE r

\* analyze_bias lines 512-550 on the dataset built from req.
MetricsOutcomes(req, dataset) ==
    LET g == IF req.privileged_groups.is_none \/ req.unprivileged_groups.is_none
             THEN simple_detect_groups(req.data, req.protected_attributes,
                                       req.group_mappings)
             ELSE Return([privileged   |-> req.privileged_groups.val,
                          unprivileged |-> req.unprivileged_groups.val])
    IN  IF ~g.ok
        THEN {ErrorResponse(HTTPException(400,
                 <<"Error in group detection:">> \o StrExc(g.exc)))}
        ELSE {ErrorResponse(HTTPException(500,
                 <<"Error calculating metrics:">>
                 \o StrExc(HTTPException(400,
                      <<"Error calculating metrics:", "library error">>))))}
             \cup
             {LET out == format_results_for_output(
                            calculate_bias_metrics(dataset, g.val.privileged,
                                                   g.val.unprivileged, scores))
              IN  IF out.ok
                  THEN [status |-> 200,
                        detail |-> <<"Bias analysis completed successfully">>,
                        results |-> out.val,
                        metrics_computed |-> TRUE]
                  ELSE [ErrorResponse(HTTPException(500,
                           <<"Error formatting results:">> \o StrExc(out.exc)))
                        EXCEPT !.metrics_computed = TRUE]
              : scores \in LibScorePairs}

\* analyze_bias lines 484-550.
AnalyzeOutcomes(req) ==
    IF req.data.rows = <<>>
    THEN {ErrorResponse(HTTPException(400, <<"Empty dataset provided">>))}
    ELSE IF req.protected_attributes = <<>>
    THEN {ErrorResponse(HTTPException(400, <<"No protected attributes specified">>))}
    ELSE IF ~ValidateColumns(req.data).ok
    THEN {ErrorResponse(CreateDatasetError(ValidateColumns(req.data).exc))}
    ELSE
    LET p == PreprocessFrom(EncodeOthers(AsTypeStr(req.data, req.protected_attributes),
                                         req.protected_attributes),
                            req.protected_attributes, 1, req.group_mappings)
    IN  IF ~p.ok
        THEN {ErrorResponse(CreateDatasetError(
                 CreateDatasetPreprocessError(PreprocessError(p.exc))))}
        ELSE IF ~CheckFirstProtected(p.val, req.protected_attributes).ok
        THEN {ErrorResponse(CreateDatasetError(
                 CheckFirstProtected(p.val, req.protected_attributes).exc))}
        ELSE {ErrorResponse(CreateDatasetError(
                 BinaryLabelDataset(p.val, req.protected_attributes, FALSE).exc))}
             \cup
             IF BinaryLabelDataset(p.val, req.protected_attributes, TRUE).ok
             THEN MetricsOutcomes(req, p.val)
             ELSE {}

\* What a caller can put in privileged_groups and unprivileged_groups.
GroupsAlternatives ==
    GroupsOptions
    \cup {<<SomeGroups("race", "B"), SomeGroups("race", "A")>>,
          <<SomeGroups("race", "A"), NoneGroups>>}

-----------------------------------------------------------------------------
(* The state machine of the formatters: a metrics dict is formatted by the *)
(* service's formatter, then by the alternate one.                         *)

\* Largest number of items of a metrics dict.
MaxMetrics == 2

MetricNames ==
    {"statistical_disparity", "disparate_impact", "equal_opportunity",
     "average_odds_difference"}

\* Scores around the thresholds 0.1, 0.8 and 1.2, and the non-finite floats.
ScoreVals ==
    {Fin(v) : v \in {-150, -100, -99, 0, 99, 100, 799, 800, 801, 1200, 1201}}
    \cup {NaNScore, PosInf, NegInf}

\* The items of a dict: no key twice.
MetricDicts ==
    {m \in SeqsUpTo(MetricNames \X ScoreVals, MaxMetrics) :
        \A i, j \in DOMAIN m : i # j => m[i][1] # m[j][1]}

NotRun == Raise(PyError(<<"not run">>))

FormatIdle == fpc = "idle" /\ metrics = <<>> /\ svcOut = NotRun /\ utilOut = NotRun

LoadMetrics ==
    /\ fpc = "idle"
    /\ fpc' = "ready"
    /\ metrics' \in MetricDicts
    /\ UNCHANGED <<svcOut, utilOut>>
    /\ UNCHANGED <<svcVars, colVars, upVars, encVars>>

FormatService ==
    /\ fpc = "ready"
    /\ fpc' = "service"
    /\ svcOut' = format_results_for_output(metrics)
    /\ UNCHANGED <<metrics, utilOut>>
    /\ UNCHANGED <<svcVars, colVars, upVars, encVars>>

FormatUtils ==
    /\ fpc = "service"
    /\ fpc' = "formatted"
    /\ utilOut' = utils_format_results_for_output(metrics)
    /\ UNCHANGED <<metrics, svcOut>>
    /\ UNCHANGED <<svcVars, colVars, upVars, encVars>>

-----------------------------------------------------------------------------
(* model_updates_scraper.py: the model-update collector.  Times are whole  *)
(* hours since the epoch; a struct_time is the hour it denotes in UTC.     *)

NonePublished == [is_none |-> TRUE, val |-> 0]
PublishedAt(h) == [is_none |-> FALSE, val |-> h]

\* The tags the regex '<[^<]+?>' of line 20 removes; ". " is the separator
\* of line 21; every other token is text free of tags and separators.
TagTokens == {"<p>", "</p>"}

StripTags(html_text) == SelectSeq(html_text, LAMBDA t : t \notin TagTokens)

\* str.strip(): a trailing ". " loses its blank.
Strip(text) ==
    IF text # <<>> /\ text[Len(text)] = ". "
    THEN [text EXCEPT ![Len(text)] = "."]
    ELSE text

\* text.split('. ')[0]
FirstPart(text) ==
    IF \E i \in DOMAIN text : text[i] = ". "
    THEN SubSeq(text, 1,
                (CHOOSE i \in DOMAIN text :
                    /\ text[i] = ". "
                    /\ \A j \in 1..(i - 1) : text[j] # ". ") - 1)
    ELSE text

\* clean_summary(html_text), lines 18-22.
clean_summary(html_text) ==
    IF FirstPart(Strip(StripTags(html_text))) # <<>>
    THEN Append(FirstPart(Strip(StripTags(html_text))), ".")
    ELSE StripTags(html_text)

\* time.mktime(t) reads the struct_time as local time: for a struct that
\* holds UTC it is off by the host's UTC offset (line 60).
mktime(t, utc_offset) == t - utc_offset

\* cutoff = now - timedelta(days=days), line 37.
Cutoff(c) == c.now - 24 * c.days

\* published, lines 59-61.
Published(e, c) == mktime(e.published_parsed.val, c.utc_offset)

\* getattr(e, 'summary', '') or getattr(e, 'description', ''), line 64.
SummaryOf(e) == IF e.summary # <<>> THEN e.summary ELSE e.description

\* The dict appended at lines 65-72.
Record(e, model_id, update_type, c) ==
    [frontier_model_id |-> model_id,
     title             |-> e.title,
     description       |-> clean_summary(SummaryOf(e)),
     update_type       |-> update_type,
     source_url        |-> e.link,
     update_date       |-> Published(e, c)]

\* KeptPositions without the break of lines 75-76: every dated entry that is
\* not older than the cutoff is kept.
RECURSIVE KeptPositions_NoCap(_, _, _, _)
KeptPositions_NoCap(entries, i, count, c) ==
    IF i > Len(entries) THEN <<>>
    ELSE IF entries[i].published_parsed.is_none
         THEN KeptPositions_NoCap(entries, i + 1, count, c)
    ELSE IF Published(entries[i], c) < Cutoff(c)
         THEN KeptPositions_NoCap(entries, i + 1, count, c)
    ELSE <<i>> \o KeptPositions_NoCap(entries, i + 1, count + 1, c)

\* The loop over feed.entries, lines 55-76: the positions of the entries it
\* appends a record for, from position i on with count records appended.
RECURSIVE KeptPositions(_, _, _, _)
KeptPositions(entries, i, count, c) ==
    IF i > Len(entries) THEN <<>>
    ELSE IF entries[i].published_parsed.is_none
         THEN KeptPositions(entries, i + 1, count, c)
    ELSE IF Published(entries[i], c) < Cutoff(c)
         THEN KeptPositions(entries, i + 1, count, c)
    ELSE IF count + 1 >= c.max_results
         THEN <<i>>
    ELSE <<i>> \o KeptPositions(entries, i + 1, count + 1, c)

\* The (update_type, phrase) list of lines 44-47.
UpdateTypes == <<"security", "feature">>

\* The pair-th (model, update_type) of the nested loops of lines 41-47.
ModelOf(ms, p) == ms[(p + 1) \div 2]
UpdateTypeOf(p) == UpdateTypes[((p - 1) % 2) + 1]

HasDuplicateUrls(values) ==
    \E i, j \in DOMAIN values : i # j /\ values[i].source_url = values[j].source_url

\* INSERT without the ON CONFLICT clause on a table without the unique
\* index.
UpsertRow_NoConflictClause(rows, r) == rows \cup {r}

\* One VALUES row of the INSERT ... ON CONFLICT (source_url) DO UPDATE of
\* lines 98-107.
UpsertRow(rows, r) ==
    IF \E old \in rows : old.source_url = r.source_url
    THEN {IF old.source_url = r.source_url
          THEN [old EXCEPT !.title = r.title,
                           !.description = r.description,
                           !.update_type = r.update_type,
                           !.update_date = r.update_date]
          ELSE old : old \in rows}
    ELSE rows \cup {r}

RECURSIVE UpsertFrom(_, _, _)
UpsertFrom(rows, values, i) ==
    IF i > Len(values) THEN rows
    ELSE UpsertFrom(UpsertRow(rows, values[i]), values, i + 1)

\* execute_values(cur, sql, values), line 109: PostgreSQL rejects a
\* statement that proposes two rows with the same source_url ("ON CONFLICT
\* DO UPDATE command cannot affect row a second time").
execute_values(rows, values, db_ok) ==
    IF ~db_ok THEN Raise(PyError(<<"psycopg2.Error">>))
    ELSE IF HasDuplicateUrls(values)
         THEN Raise(PyError(<<"psycopg2.errors.CardinalityViolation">>))
    ELSE Return(UpsertFrom(rows, values, 1))

NoTransaction  == [open |-> FALSE, rows |-> {}]
Transaction(rows) == [open |-> TRUE, rows |-> rows]

\* conn.close() with the changes of an open transaction kept.
AfterClose_KeepsPending(committed, txn) ==
    IF txn.open THEN txn.rows ELSE committed

\* conn.close(), line 136: an open transaction is rolled back.
AfterClose(committed, txn) == committed

(* ---- the collector's inputs ---- *)

MaxFeed == 2

\* The rows of frontier_models: (id, name, provider).
Model1 == [id |-> 1, name |-> "gpt", provider |-> "openai"]
ModelTables == {<<>>, <<Model1>>}

\* Feed entries: recent, recent, an hour older than the cutoff of Configs,
\* undated, and a retitled copy of the first.
EntryPool ==
    { [published_parsed |-> PublishedAt(25), title |-> "t1", link |-> "u1",
       summary |-> <<"<p>", "Fixed", ". ", "More", "</p>">>, description |-> <<>>],
      [published_parsed |-> PublishedAt(25), title |-> "t1", link |-> "u2",
       summary |-> <<>>, description |-> <<"Added">>],
      [published_parsed |-> PublishedAt(23), title |-> "t2", link |-> "u1",
       summary |-> <<>>, description |-> <<>>],
      [published_parsed |-> NonePublished, title |-> "t2", link |-> "u2",
       summary |-> <<". ">>, description |-> <<>>],
      [published_parsed |-> PublishedAt(25), title |-> "t2", link |-> "u1",
       summary |-> <<"Added">>, description |-> <<"Fixed">>] }

Feeds == SeqsUpTo(EntryPool, MaxFeed)

\* The command line (-d, -n), the clock, and the host's time zone.
Configs ==
    [max_results : {0, 1, 2}, days : {1}, now : {48}, utc_offset : {-1, 0}]

NoConfig == [max_results |-> 0, days |-> 0, now |-> 0, utc_offset |-> 0]
NoLog    == [pair |-> 0, entries |-> <<>>, kept |-> <<>>]

(* ---- main(), lines 115-136, one step per call ---- *)

CollectorIdle ==
    /\ cpc = "idle" /\ cfg = NoConfig /\ models = <<>> /\ pair = 0
    /\ results = <<>> /\ log = NoLog /\ pending = NoTransaction
    /\ table = {} /\ table0 = {}

\* A deployment of the collector: its command line and host, and an empty
\* frontier_model_updates.
CollectorInstalled ==
    /\ cpc = "idle" /\ cfg \in Configs /\ models = <<>> /\ pair = 0
    /\ results = <<>> /\ log = NoLog /\ pending = NoTransaction
    /\ table = {} /\ table0 = {}

\* psycopg2.connect(database_url), line 127; a failure is outside the try.
Connect ==
    /\ cpc = "idle"
    /\ \E ok \in BOOLEAN :
          cpc' = IF ok THEN "connected" ELSE "aborted"
    /\ table0' = table
    /\ UNCHANGED <<cfg, models, pair, results, log, pending, table>>
    /\ UNCHANGED <<svcVars, fmtVars, upVars, encVars>>

\* get_models_from_db(conn), lines 24-30 and 34.
GetModels ==
    /\ cpc = "connected"
    /\ \/ /\ models' \in ModelTables
          /\ pair' = 1
          /\ cpc' = "scraping"
       \/ /\ cpc' = "aborted"
          /\ UNCHANGED <<models, pair>>
    /\ UNCHANGED <<cfg, results, log, pending, table, table0>>
    /\ UNCHANGED <<svcVars, fmtVars, upVars, encVars>>

\* One pass of the loop of lines 44-77: feedparser.parse and the loop over
\* the entries of the feed it returns.
ScrapePair ==
    /\ cpc = "scraping"
    /\ pair <= 2 * Len(models)
    /\ \/ \E entries \in Feeds :
            \E kept \in {KeptPositions(entries, 1, 0, cfg)} :
               /\ results' = results \o
                     [k \in 1..Len(kept) |->
                        Record(entries[kept[k]], ModelOf(models, pair).id,
                               UpdateTypeOf(pair), cfg)]
               /\ log' = [pair |-> pair, entries |-> entries, kept |-> kept]
               /\ pair' = pair + 1
               /\ cpc' = "scraping"
       \/ /\ cpc' = "aborted"
          /\ UNCHANGED <<results, log, pair>>
    /\ UNCHANGED <<cfg, models, pending, table, table0>>
    /\ UNCHANGED <<svcVars, fmtVars, upVars, encVars>>

\* Lines 130-134 and insert_into_db up to execute_values (lines 81-109).
ExecuteValues ==
    /\ cpc = "scraping"
    /\ pair > 2 * Len(models)
    /\ IF results = <<>>
       THEN cpc' = "done" /\ UNCHANGED pending
       ELSE \E db_ok \in BOOLEAN :
              \E r \in {execute_values(table, results, db_ok)} :
                 IF r.ok
                 THEN cpc' = "executed" /\ pending' = Transaction(r.val)
                 ELSE cpc' = "aborted" /\ UNCHANGED pending
    /\ UNCHANGED <<cfg, models, pair, results, log, table, table0>>
    /\ UNCHANGED <<svcVars, fmtVars, upVars, encVars>>

\* conn.commit(), line 110.
Commit ==
    /\ cpc = "executed"
    /\ \/ /\ table' = pending.rows
          /\ pending' = NoTransaction
          /\ cpc' = "done"
       \/ /\ cpc' = "aborted"
          /\ UNCHANGED <<table, pending>>
    /\ UNCHANGED <<cfg, models, pair, results, log, table0>>
    /\ UNCHANGED <<svcVars, fmtVars, upVars, encVars>>

\* The finally clause, line 136, and the end of the process.
Close ==
    /\ cpc \in {"done", "aborted"}
    /\ table' = AfterClose(table, pending)
    /\ table0' = table'
    /\ pending' = NoTransaction
    /\ models' = <<>> /\ pair' = 0 /\ results' = <<>> /\ log' = NoLog
    /\ cpc' = "idle"
    /\ UNCHANGED cfg
    /\ UNCHANGED <<svcVars, fmtVars, upVars, encVars>>

-----------------------------------------------------------------------------
(* main.py: the upload endpoints analyze_file (lines 588-632) and          *)
(* analyze_folder (lines 634-667), and run_bias_analysis (lines 558-586),  *)
(* which both call and which synchronous code can call directly.  A file   *)
(* name is its stem and its extension; a group_mappings parameter is the   *)
(* kind of text it holds; whether a file's bytes parse is part of the      *)
(* input.                                                                  *)

Name(stem, ext) == [stem |-> stem, ext |-> ext]

\* str.lower() on an extension.
Lower(ext) ==
    CASE ext = ".CSV" -> ".csv"
      [] ext = ".ZIP" -> ".zip"
      [] OTHER -> ext

\* The test of line 640 that lets everything through.
IsZipName_AnyName(name) == TRUE

\* file.filename.lower().endswith(".zip"), line 640.
IsZipName(name) == Lower(name.ext) = ".zip"

\* fname.endswith(".csv") or fname.endswith(".xlsx") or
\* fname.endswith(".xls"), line 650: no lower().
IsDataName(name) == name.ext \in {".csv", ".xlsx", ".xls"}

\* The kinds of group_mappings text: absent, "", a JSON object of the
\* right shape, a JSON value that is no object, and text that is neither
\* JSON nor a Python expression.
MappingKinds == {"none", "empty", "json_dict", "json_list", "invalid"}

\* `if group_mappings`, lines 610 and 657.
Truthy(gm) == gm \notin {"none", "empty"}

\* json.loads(group_mappings), line 612.
json_loads(gm) ==
    IF gm = "invalid" THEN Raise(PyError(<<"JSONDecodeError">>))
    ELSE Return(IF gm = "json_dict" THEN "dict" ELSE "list")

\* eval(group_mappings), line 657.
eval(gm) ==
    IF gm = "invalid" THEN Raise(PyError(<<"SyntaxError">>))
    ELSE Return(IF gm = "json_dict" THEN "dict" ELSE "list")

\* The group_map handed to run_bias_analysis: "None", "dict" or "list".
GroupMapOf(u) ==
    IF ~Truthy(u.group_mappings) THEN "None"
    ELSE IF u.endpoint = "file" THEN json_loads(u.group_mappings).val
    ELSE eval(u.group_mappings).val

\* Lines 630-632: every exception of analyze_file's body, an HTTPException
\* included, is raised again as a 500 whose detail is str(e).
FileError(e) == HTTPException(500, StrExc(e))

\* Lines 596-614 of analyze_file: the extension, the parse, the mapping.
FileArguments(u) ==
    IF Lower(u.filename.ext) \notin {".csv", ".xlsx", ".xls"}
    THEN Raise(FileError(HTTPException(400,
                 <<"Unsupported file type:", Lower(u.filename.ext)>>)))
    ELSE IF ~u.parses
    THEN Raise(FileError(PyError(<<"ParserError">>)))
    ELSE IF Truthy(u.group_mappings) /\ ~json_loads(u.group_mappings).ok
    THEN Raise(FileError(HTTPException(400, <<"Invalid group_mappings JSON format">>)))
    ELSE Return(GroupMapOf(u))

\* A result entry: a metric row or {"error": ...}, and its "file" key.
NoName == Name("", "")
ErrorEntry(detail)  == [kind |-> "error", detail |-> detail, file |-> NoName]
ResultEntry(metric) == [kind |-> "result", detail |-> <<metric>>, file |-> NoName]

\* r["file"] = fname for every r, lines 659-660.
Tag(entries, fname) == [i \in DOMAIN entries |-> [entries[i] EXCEPT !.file = fname]]

\* BiasAnalysisRequest(...), lines 565-569: pydantic rejects a group_mappings
\* that is no dict.
RequestValid(group_map) == group_map # "list"

\* What analyze_bias gives run_bias_analysis when it is run to completion:
\* result.results, or an HTTPException that line 586 turns into an entry.
AnalysisOutcomes ==
    { <<ResultEntry("Statistical Disparity"), ResultEntry("Disparate Impact")>>,
      <<ErrorEntry(StrExc(HTTPException(400, <<"Error creating dataset:">>)))>> }

NoTmpDir == [state |-> "none", zip_written |-> FALSE, extracted |-> FALSE]

\* Leaving the with block of line 642 without removing the directory.
TemporaryDirectoryExit_Leaves(d) == d

\* Leaving the with block of line 642, by return or by exception:
\* TemporaryDirectory.__exit__ removes the directory.
TemporaryDirectoryExit(d) == [d EXCEPT !.state = "removed"]

\* The response to an exception no handler catches.
InternalServerError == [status |-> 500, detail |-> <<"Internal Server Error">>, entries |-> <<>>]

HttpErrorResponse(e) == [status |-> e.status, detail |-> e.detail, entries |-> <<>>]

\* The StreamingResponse with the CSV of the entries.
CsvResponse(entries) == [status |-> 200, detail |-> <<>>, entries |-> entries]

(* ---- the uploads ---- *)

\* Largest number of files in an uploaded archive.
MaxFiles == 2

MemberPool ==
    { [name |-> Name("a", ".csv"),  parses |-> TRUE],
      [name |-> Name("b", ".csv"),  parses |-> FALSE],
      [name |-> Name("c", ".xlsx"), parses |-> TRUE],
      [name |-> Name("notes", ".txt"), parses |-> FALSE] }

NoArchive  == [valid |-> FALSE, files |-> <<>>]

\* An upload that is no zip archive, and the archives of distinct files.
Archives ==
    {NoArchive} \cup
    {[valid |-> TRUE, files |-> f] :
        f \in {g \in SeqsUpTo(MemberPool, MaxFiles) :
                  \A i, j \in DOMAIN g : i # j => g[i] # g[j]}}

\* os.listdir(tmpdir), line 649: the extracted files and input.zip.
Listing(u) ==
    <<[name |-> Name("input", ".zip"), parses |-> FALSE]>> \o u.archive.files

\* The calling thread's event loop as asyncio.get_event_loop() finds it
\* (line 573): "running" on the loop's own thread, which is where the two
\* async handlers run; "idle" for a current loop that is not running;
\* "none" for a thread without a current loop, where the call raises
\* RuntimeError.
Loops == {"running", "idle", "none"}

Uploads ==
    [endpoint : {"file"}, filename : {Name("data", e) : e \in {".csv", ".CSV", ".xlsx", ".txt"}},
     group_mappings : MappingKinds, parses : BOOLEAN, archive : {NoArchive},
     loop : {"running"}]
    \cup
    [endpoint : {"folder"}, filename : {Name("data", e) : e \in {".zip", ".ZIP", ".csv"}},
     group_mappings : MappingKinds, parses : {TRUE}, archive : Archives,
     loop : {"running"}]
    \cup
    [endpoint : {"direct"}, filename : {NoName},
     group_mappings : {"none", "json_dict", "json_list"}, parses : {TRUE},
     archive : {NoArchive}, loop : Loops]

NoUpload == [endpoint |-> "none", filename |-> NoName, group_mappings |-> "none",
             parses |-> FALSE, archive |-> NoArchive, loop |-> "none"]
NoUResp  == [status |-> 0, detail |-> <<>>, entries |-> <<>>]

(* ---- the handlers, one step per stage ---- *)

UploadIdle ==
    /\ upc = "idle" /\ upload = NoUpload /\ uresp = NoUResp /\ tmpdir = NoTmpDir
    /\ idx = 0 /\ uresults = <<>> /\ task = "none" /\ tick = 0

\* A request arrives at an endpoint, or synchronous code calls
\* run_bias_analysis.
SubmitUpload ==
    /\ upc = "idle"
    /\ upload' \in Uploads
    /\ upc' = IF upload'.endpoint = "direct" THEN "call" ELSE "received"
    /\ UNCHANGED <<uresp, tmpdir, idx, uresults, task, tick>>
    /\ UNCHANGED <<svcVars, fmtVars, colVars, encVars>>

\* analyze_file up to the call of run_bias_analysis, lines 595-617.
AnalyzeFile ==
    /\ upc = "received"
    /\ upload.endpoint = "file"
    /\ \E r \in {FileArguments(upload)} :
          IF r.ok
          THEN upc' = "call" /\ UNCHANGED uresp
          ELSE upc' = "responded" /\ uresp' = HttpErrorResponse(r.exc)
    /\ UNCHANGED <<upload, tmpdir, idx, uresults, task, tick>>
    /\ UNCHANGED <<svcVars, fmtVars, colVars, encVars>>

\* analyze_folder up to `await file.read()`, lines 640-645: the name is
\* tested, the temporary directory is created and input.zip is opened in
\* it, still empty; the handler then yields to the event loop.
AnalyzeFolderOpen ==
    /\ upc = "received"
    /\ upload.endpoint = "folder"
    /\ IF ~IsZipName(upload.filename)
       THEN /\ uresp' = HttpErrorResponse(HTTPException(400,
                           <<"Only ZIP files are supported for folder upload.">>))
            /\ upc' = "responded"
            /\ UNCHANGED tmpdir
       ELSE /\ tmpdir' = [state |-> "exists", zip_written |-> FALSE, extracted |-> FALSE]
            /\ upc' = "reading"
            /\ UNCHANGED uresp
    /\ UNCHANGED <<upload, idx, uresults, task, tick>>
    /\ UNCHANGED <<svcVars, fmtVars, colVars, encVars>>

\* analyze_folder resumed after `await file.read()`, lines 645-648: the
\* upload's bytes are written to input.zip and the archive is extracted,
\* or zipfile raises on bytes that are no archive.
AnalyzeFolderExtract ==
    /\ upc = "reading"
    /\ IF ~upload.archive.valid
       THEN /\ tmpdir' = TemporaryDirectoryExit([tmpdir EXCEPT !.zip_written = TRUE])
            /\ uresp' = InternalServerError
            /\ upc' = "responded"
            /\ UNCHANGED idx
       ELSE /\ tmpdir' = [tmpdir EXCEPT !.zip_written = TRUE, !.extracted = TRUE]
            /\ idx' = 1
            /\ upc' = "listing"
            /\ UNCHANGED uresp
    /\ UNCHANGED <<upload, uresults, task, tick>>
    /\ UNCHANGED <<svcVars, fmtVars, colVars, encVars>>

\* The handler's task is cancelled (the client has gone) while it is
\* suspended at `await file.read()`, line 597 or line 645: CancelledError
\* is no Exception, so it leaves the handler through the with block and no
\* response is produced.
CancelWhileReading ==
    /\ \/ upc = "received" /\ upload.endpoint = "file"
       \/ upc = "reading"
    /\ upc' = "cancelled"
    /\ tmpdir' = IF tmpdir.state = "exists" THEN TemporaryDirectoryExit(tmpdir) ELSE tmpdir
    /\ UNCHANGED <<upload, uresp, idx, uresults, task, tick>>
    /\ UNCHANGED <<svcVars, fmtVars, colVars, encVars>>

\* One pass of the loop of lines 649-663 up to the call of
\* run_bias_analysis, or the end of the loop and lines 664-667.
AnalyzeFolderNext ==
    /\ upc = "listing"
    /\ IF idx > Len(Listing(upload))
       THEN /\ tmpdir' = TemporaryDirectoryExit(tmpdir)
            /\ uresp' = CsvResponse(uresults)
            /\ upc' = "responded"
            /\ UNCHANGED <<idx, uresults>>
       ELSE IF ~IsDataName(Listing(upload)[idx].name)
       THEN /\ idx' = idx + 1
            /\ UNCHANGED <<upc, uresp, tmpdir, uresults>>
       ELSE IF ~Listing(upload)[idx].parses
       THEN /\ tmpdir' = TemporaryDirectoryExit(tmpdir)
            /\ uresp' = InternalServerError
            /\ upc' = "responded"
            /\ UNCHANGED <<idx, uresults>>
       ELSE IF Truthy(upload.group_mappings) /\ ~eval(upload.group_mappings).ok
       THEN /\ uresults' = Append(uresults,
                              [ErrorEntry(StrExc(eval(upload.group_mappings).exc))
                                 EXCEPT !.file = Listing(upload)[idx].name])
            /\ idx' = idx + 1
            /\ UNCHANGED <<upc, uresp, tmpdir>>
       ELSE /\ upc' = "call"
            /\ UNCHANGED <<idx, uresp, tmpdir, uresults>>
    /\ UNCHANGED <<upload, task, tick>>
    /\ UNCHANGED <<svcVars, fmtVars, colVars, encVars>>

\* run_bias_analysis returns the list entries to its caller: analyze_file
\* answers with its CSV (lines 619-628), analyze_folder tags it, extends
\* results and goes on with the next file (lines 659-661).
ReturnToCaller(entries) ==
    IF upload.endpoint = "folder"
    THEN /\ uresults' = uresults \o Tag(entries, Listing(upload)[idx].name)
         /\ idx' = idx + 1
         /\ upc' = "listing"
         /\ UNCHANGED uresp
    ELSE /\ uresp' = IF upload.endpoint = "file"
                     THEN CsvResponse(entries)
                     ELSE [status |-> 0, detail |-> <<>>, entries |-> entries]
         /\ upc' = "responded"
         /\ UNCHANGED <<idx, uresults>>

\* run_bias_analysis, lines 563-576 and 585-586: the request is built, then
\* asyncio.get_event_loop() is asked for the thread's loop.  Without a
\* current loop it raises RuntimeError and the function returns the error
\* entry without starting analyze_bias; on the running loop's thread
\* analyze_bias is scheduled on that loop with ensure_future; otherwise a
\* new loop is made for run_until_complete.
RunBiasAnalysis ==
    /\ upc = "call"
    /\ IF ~RequestValid(GroupMapOf(upload))
       THEN /\ ReturnToCaller(<<ErrorEntry(<<"ValidationError">>)>>)
            /\ UNCHANGED task
       ELSE IF upload.loop = "none"
       THEN /\ ReturnToCaller(<<ErrorEntry(<<"There is no current event loop in thread">>)>>)
            /\ UNCHANGED task
       ELSE IF upload.loop = "idle"
       THEN /\ upc' = "run_until_complete"
            /\ UNCHANGED <<uresp, idx, uresults, task>>
       ELSE /\ task' = "pending"
            /\ upc' = "polling"
            /\ UNCHANGED <<uresp, idx, uresults>>
    /\ UNCHANGED <<upload, tmpdir, tick>>
    /\ UNCHANGED <<svcVars, fmtVars, colVars, encVars>>

\* One turn of `while not response.done(): time.sleep(0.01)`, lines
\* 578-580.  The loop runs on the event loop's only thread, so the loop
\* runs no task while it lasts: nothing sets task to "done".
PollFuture ==
    /\ upc = "polling"
    /\ IF task = "done"
       THEN /\ \E entries \in AnalysisOutcomes : ReturnToCaller(entries)
            /\ UNCHANGED tick
       ELSE /\ tick' = 1 - tick
            /\ UNCHANGED <<upc, uresp, idx, uresults>>
    /\ UNCHANGED <<upload, tmpdir, task>>
    /\ UNCHANGED <<svcVars, fmtVars, colVars, encVars>>

\* loop.run_until_complete(analyze_bias(req)), lines 582-586.
RunUntilComplete ==
    /\ upc = "run_until_complete"
    /\ \E entries \in AnalysisOutcomes : ReturnToCaller(entries)
    /\ UNCHANGED <<upload, tmpdir, task, tick>>
    /\ UNCHANGED <<svcVars, fmtVars, colVars, encVars>>

-----------------------------------------------------------------------------
(* The life of one column that is no protected attribute, from            *)
(* pd.DataFrame(data) to the frame handed to BinaryLabelDataset:           *)
(* preprocess_data lines 154-164, the rows the mapping of a protected      *)
(* attribute drops (lines 166-216), then encode_categoricals (lines        *)
(* 125-137) as create_dataset calls it.                                    *)

\* Largest number of rows of the column.
MaxColumn == 3

\* The values of the column: strings, and the JSON numbers 1 and 2.
FeatureVals == {"1", "2", "B", "a", "b"}

\* A frame has a column only if it has a row.
Columns  == SeqsUpTo(FeatureVals, MaxColumn) \ {<<>>}
NoSeries == [dtype |-> "object", vals |-> <<>>]

\* The dtype pd.DataFrame(data) infers (line 391): int64 for numbers,
\* object for a mix; for strings it is object, or str with a pandas that has
\* the string dtype as its default (pandas is not pinned).
InferredDtypes(vals) ==
    IF \A i \in DOMAIN vals : IsNumeric(vals[i]) THEN {"int64"}
    ELSE IF \E i \in DOMAIN vals : IsNumeric(vals[i]) THEN {"object"}
    ELSE {"object", "str"}

\* The n-th smallest member of a set of positions.
NthOf(K, n) == CHOOSE k \in K : Cardinality({j \in K : j < k}) = n - 1

\* df[~df[attr].isna()] with reset_index(drop=True), lines 187-188, seen
\* from another column: the values at the positions K, in order.
KeepRows(vals, K) == [n \in 1..Cardinality(K) |-> vals[NthOf(K, n)]]

EncodeIdle == epc = "idle" /\ column = <<>> /\ series = NoSeries /\ rows_kept = <<>>

\* pd.DataFrame(data): the column as the request gave it.
LoadColumn ==
    /\ epc = "idle"
    /\ epc' = "loaded"
    /\ column' \in Columns
    /\ \E d \in InferredDtypes(column') : series' = [dtype |-> d, vals |-> column']
    /\ rows_kept' = [i \in DOMAIN column' |-> i]
    /\ UNCHANGED <<svcVars, fmtVars, colVars, upVars>>

\* preprocess_data reaches the column in its loop of line 155.
PreprocessStep ==
    /\ epc = "loaded"
    /\ epc' = "preprocessed"
    /\ series' = PreprocessColumn(series)
    /\ UNCHANGED <<column, rows_kept>>
    /\ UNCHANGED <<svcVars, fmtVars, colVars, upVars>>

\* preprocess_data lines 166-216, seen from this column: the loop over the
\* protected attributes raises, or leaves the frame as it is, or drops the
\* rows whose protected value a mapping does not list; at least a row of
\* each group is left then.
MapProtectedStep ==
    /\ epc = "preprocessed"
    /\ \/ /\ epc' = "refused"
          /\ UNCHANGED <<series, rows_kept>>
       \/ \E K \in SUBSET DOMAIN rows_kept :
             /\ K = DOMAIN rows_kept \/ Cardinality(K) >= 2
             /\ epc' = "mapped"
             /\ series' = [series EXCEPT !.vals = KeepRows(series.vals, K)]
             /\ rows_kept' = KeepRows(rows_kept, K)
    /\ UNCHANGED column
    /\ UNCHANGED <<svcVars, fmtVars, colVars, upVars>>

\* create_dataset line 422 calls encode_categoricals on the preprocessed
\* frame.
EncodeCategoricalsStep ==
    /\ epc = "mapped"
    /\ epc' = "encoded"
    /\ series' = encode_categoricals(series)
    /\ UNCHANGED <<column, rows_kept>>
    /\ UNCHANGED <<svcVars, fmtVars, colVars, upVars>>

-----------------------------------------------------------------------------
(* Specifications.                                                         *)

InitAnalyze == ServiceIdle /\ FormatIdle /\ CollectorIdle /\ UploadIdle /\ EncodeIdle

NextAnalyze ==
    \/ SubmitRequest
    \/ BeginAnalysis
    \/ EncodeStep
    \/ BuildDataset
    \/ ComputeMetrics

SpecAnalyze == InitAnalyze /\ [][NextAnalyze]_vars

InitFormat == ServiceIdle /\ FormatIdle /\ CollectorIdle /\ UploadIdle /\ EncodeIdle

NextFormat ==
    \/ LoadMetrics
    \/ FormatService
    \/ FormatUtils

SpecFormat == InitFormat /\ [][NextFormat]_vars

InitCollector == ServiceIdle /\ FormatIdle /\ CollectorInstalled /\ UploadIdle /\ EncodeIdle

NextCollector ==
    \/ Connect
    \/ GetModels
    \/ ScrapePair
    \/ ExecuteValues
    \/ Commit
    \/ Close

SpecCollector == InitCollector /\ [][NextCollector]_vars

InitUpload == ServiceIdle /\ FormatIdle /\ CollectorIdle /\ UploadIdle /\ EncodeIdle

NextUpload ==
    \/ SubmitUpload
    \/ AnalyzeFile
    \/ AnalyzeFolderOpen
    \/ AnalyzeFolderExtract
    \/ CancelWhileReading
    \/ AnalyzeFolderNext
    \/ RunBiasAnalysis
    \/ PollFuture
    \/ RunUntilComplete

\* The interpreter keeps running the handler's thread: a step that can be
\* taken is taken.
SpecUpload == InitUpload /\ [][NextUpload]_vars /\ WF_vars(NextUpload)

InitEncode == ServiceIdle /\ FormatIdle /\ CollectorIdle /\ UploadIdle /\ EncodeIdle

NextEncode ==
    \/ LoadColumn
    \/ PreprocessStep
    \/ MapProtectedStep
    \/ EncodeCategoricalsStep

SpecEncode == InitEncode /\ [][NextEncode]_vars

-----------------------------------------------------------------------------
(* Properties of the bias analysis service (SpecAnalyze).                  *)

\* C1: in preprocess_data, for an attribute with an explicit group mapping,
\* every row whose value is in neither the privileged nor the unprivileged
\* set is dropped and every other row is kept, in order: the frame loses
\* exactly the unmapped rows, and the attribute column holds 1.0 where the
\* value was privileged and 0.0 where it was unprivileged, nothing else.
C1_ExplicitMappingDropsExactlyUnmapped ==
    [][ ( /\ pc = "preprocess"
          /\ attr_i <= Len(request.protected_attributes)
          /\ InColumns(cur_df, request.protected_attributes[attr_i])
          /\ request.protected_attributes[attr_i] \in DOMAIN request.group_mappings
          /\ attr_i' = attr_i + 1 )
        =>
        LET a  == request.protected_attributes[attr_i]
            P  == AsList(request.group_mappings[a].privileged)
            U  == AsList(request.group_mappings[a].unprivileged)
            unmapped == {i \in DOMAIN cur_df.rows : cur_df.rows[i][a] \notin P \cup U}
            kept == SelectSeq(cur_df.rows, LAMBDA r : r[a] \in P \cup U)
        IN  /\ Len(cur_df'.rows) = Len(cur_df.rows) - Cardinality(unmapped)
            /\ \A j \in DOMAIN cur_df'.rows : cur_df'.rows[j][a] \in {F0, F1}
            /\ cur_df'.rows =
                 [j \in 1..Len(kept) |->
                    [kept[j] EXCEPT ![a] = IF kept[j][a] \in P THEN F1 ELSE F0]]
      ]_vars

\* C1 witness: a request mapping race by {privileged: [A], unprivileged:
\* [B, C]} whose data holds a C row and a D row has been preprocessed, and
\* the frame has lost exactly one row.
C1_Witness ==
    /\ pc = "preprocess"
    /\ attr_i = 2
    /\ request.protected_attributes = <<"race">>
    /\ "race" \in DOMAIN request.group_mappings
    /\ \E i \in DOMAIN request.data.rows : request.data.rows[i].race = "D"
    /\ \E i \in DOMAIN request.data.rows : request.data.rows[i].race = "C"
    /\ Len(cur_df.rows) = Len(request.data.rows) - 1
    /\ \E j \in DOMAIN cur_df.rows : cur_df.rows[j].race = F1

\* C2: when the preprocessing loop reaches a protected attribute that has
\* more than two distinct values and no group mapping, the request ends
\* with a 400 response whose detail names the attribute and exactly the
\* observed values; the working frame keeps all its rows, no dataset is
\* built and no metric is computed.
C2_TooManyValuesIsA400NamingThem ==
    [][ ( /\ pc = "preprocess"
          /\ attr_i <= Len(request.protected_attributes)
          /\ InColumns(cur_df, request.protected_attributes[attr_i])
          /\ request.protected_attributes[attr_i] \notin DOMAIN request.group_mappings
          /\ Cardinality(Range(Column(cur_df, request.protected_attributes[attr_i]))) > 2 )
        =>
        LET a == request.protected_attributes[attr_i]
            observed == Range(Column(cur_df, a))
        IN  /\ pc' = "responded"
            /\ response'.status = 400
            /\ a \in Range(response'.detail)
            /\ Range(response'.detail) \cap (RaceVals \cup SexVals) = observed
            /\ cur_df' = cur_df
            /\ built_dataset' = NoFrame
            /\ ~response'.metrics_computed
            /\ response'.results = <<>>
      ]_vars

\* C2 witness: a request whose only protected attribute, race, has three
\* distinct values and no mapping has been answered.
C2_Witness ==
    /\ pc = "responded"
    /\ request.protected_attributes = <<"race">>
    /\ request.group_mappings = NoMappings
    /\ "target" \in Range(request.data.columns)
    /\ Cardinality(Range(Column(request.data, "race"))) = 3
    /\ response.status = 400

\* C3: a dataset is only ever built from a frame whose first protected
\* attribute column holds the values 0.0 and 1.0, both of them and nothing
\* else; a request for which no dataset is built ends with a 400.
C3_BuiltDatasetIsBinary ==
    /\ built_dataset # NoFrame =>
         \E i \in DOMAIN request.protected_attributes :
            /\ InColumns(built_dataset, request.protected_attributes[i])
            /\ \A j \in 1..(i - 1) :
                  ~InColumns(built_dataset, request.protected_attributes[j])
            /\ Range(Column(built_dataset, request.protected_attributes[i])) = {F0, F1}
    /\ (pc = "responded" /\ built_dataset = NoFrame) => response.status = 400

\* C3 witness: a dataset has been built from a frame that lost a row to the
\* mapping.
C3_Witness ==
    /\ pc = "dataset"
    /\ built_dataset # NoFrame
    /\ Len(built_dataset.rows) < Len(request.data.rows)

\* C12: on POST /analyze every validation failure ends the request with
\* status 400 and a message, with no results, no dataset and no metric
\* computed.  The failures are: empty data, empty protected_attributes,
\* fewer than two columns, no label column among label/true_label/target;
\* when the preprocessing loop reaches an attribute without a mapping, a
\* number of distinct values other than two; when it reaches one with a
\* mapping, no value of the privileged set or no value of the unprivileged
\* set; and, after the loop, a first protected attribute column without
\* 0.0 or without 1.0.
C12_ValidationFailureIsA400 ==
    [][ ( \/ /\ pc = "received"
             /\ \/ request.data.rows = <<>>
                \/ request.protected_attributes = <<>>
                \/ Len(request.data.columns) < 2
                \/ Range(request.data.columns) \cap {"label", "true_label", "target"} = {}
          \/ /\ pc = "preprocess"
             /\ attr_i <= Len(request.protected_attributes)
             /\ InColumns(cur_df, request.protected_attributes[attr_i])
             /\ LET a == request.protected_attributes[attr_i]
                    seen == Range(Column(cur_df, a))
                IN  IF a \in DOMAIN request.group_mappings
                    THEN LET P == AsList(request.group_mappings[a].privileged)
                             U == AsList(request.group_mappings[a].unprivileged)
                         IN  seen \cap P = {} \/ (seen \cap U) \ P = {}
                    ELSE Cardinality(seen) # 2
          \/ /\ pc = "preprocess"
             /\ attr_i > Len(request.protected_attributes)
             /\ \E i \in DOMAIN request.protected_attributes :
                   /\ InColumns(cur_df, request.protected_attributes[i])
                   /\ \A j \in 1..(i - 1) :
                         ~InColumns(cur_df, request.protected_attributes[j])
                   /\ {F0, F1} \ Range(Column(cur_df, request.protected_attributes[i])) # {} )
        =>
        /\ pc' = "responded"
        /\ response'.status = 400
        /\ response'.detail # <<>>
        /\ response'.results = <<>>
        /\ ~response'.metrics_computed
        /\ built_dataset' = NoFrame
      ]_vars

\* C12 witness: a request whose mapping of race, {privileged: [A],
\* unprivileged: [B, C]}, meets only A rows has been answered with a 400.
C12_Witness ==
    /\ pc = "responded"
    /\ response.status = 400
    /\ request.protected_attributes = <<"race">>
    /\ "race" \in DOMAIN request.group_mappings
    /\ InColumns(request.data, "target")
    /\ Len(request.data.rows) >= 2
    /\ \A i \in DOMAIN request.data.rows : request.data.rows[i].race = "A"

\* C18 as stated: only the first protected attribute is used: the turn of
\* a second or later attribute in preprocessing neither fails the request
\* nor removes rows.
C18_AsStated ==
    [][ ( /\ pc = "preprocess"
          /\ attr_i >= 2
          /\ attr_i <= Len(request.protected_attributes) )
        => /\ pc' = "preprocess"
           /\ Len(cur_df'.rows) = Len(cur_df.rows) ]_vars

\* C18, amended: preprocessing encodes every named protected attribute
\* that is a column, not only the first.  A second or later attribute
\* without a mapping fails the request with a 400 unless it has exactly two
\* distinct values; with a mapping, the rows whose value the mapping does
\* not list are removed, and the request fails with a 400 if no privileged
\* or no unprivileged value is left.  Only the check that ends
\* create_dataset is confined to the first attribute that is a column: it
\* fails the request exactly when that column lacks 1.0 or 0.0.
C18_EveryNamedAttributeIsEncoded ==
    [][ /\ ( /\ pc = "preprocess"
             /\ attr_i >= 2
             /\ attr_i <= Len(request.protected_attributes)
             /\ InColumns(cur_df, request.protected_attributes[attr_i])
             /\ <<pc, cur_df, attr_i>>' # <<pc, cur_df, attr_i>> )
           =>
           LET a    == request.protected_attributes[attr_i]
               vals == Range(Column(cur_df, a))
           IN  IF a \in DOMAIN request.group_mappings
               THEN LET P == AsList(request.group_mappings[a].privileged)
                        U == AsList(request.group_mappings[a].unprivileged)
                    IN  IF vals \cap P # {} /\ (vals \cap U) \ P # {}
                        THEN /\ pc' = "preprocess"
                             /\ Len(cur_df'.rows) =
                                   Cardinality({i \in DOMAIN cur_df.rows :
                                                   cur_df.rows[i][a] \in P \cup U})
                             /\ Range(Column(cur_df', a)) = {F1, F0}
                        ELSE /\ pc' = "responded"
                             /\ response'.status = 400
               ELSE IF Cardinality(vals) = 2
                    THEN /\ pc' = "preprocess"
                         /\ Len(cur_df'.rows) = Len(cur_df.rows)
                         /\ Range(Column(cur_df', a)) = {F1, F0}
                    ELSE /\ pc' = "responded"
                         /\ response'.status = 400
        /\ ( /\ pc = "preprocess"
             /\ attr_i > Len(request.protected_attributes)
             /\ pc' # pc )
           =>
           LET present == SelectSeq(request.protected_attributes,
                                    LAMBDA a : InColumns(cur_df, a))
           IN  IF present = <<>> \/ {F1, F0} \subseteq Range(Column(cur_df, present[1]))
               THEN \/ pc' = "dataset"
                    \/ "Error creating BinaryLabelDataset:" \in Range(response'.detail)
               ELSE /\ pc' = "responded"
                    /\ response'.status = 400
                    /\ "Error processing protected attribute" \in Range(response'.detail)
      ]_vars

\* C18 witness: a request naming two attributes has been refused with a
\* 400 at the turn of the second, after the first was encoded.
C18_Witness ==
    /\ pc = "responded"
    /\ Len(request.protected_attributes) = 2
    /\ attr_i = 2
    /\ response.status = 400
    /\ Range(Column(cur_df, request.protected_attributes[1])) = {F1, F0}
    /\ Cardinality(Range(Column(cur_df, request.protected_attributes[2]))) = 3

\* C20 as stated: the outcome of POST /analyze does not depend on
\* privileged_groups and unprivileged_groups: the response given to a
\* request is one the handler can give to every request with the same
\* data, protected_attributes and group_mappings, whatever those two fields
\* hold.
C20_AsStated ==
    pc = "responded" =>
        \A g \in GroupsAlternatives :
            response \in AnalyzeOutcomes([request EXCEPT !.privileged_groups = g[1],
                                                         !.unprivileged_groups = g[2]])

-----------------------------------------------------------------------------
(* Properties of the two formatters (SpecFormat).  Scores are in           *)
(* thousandths: 800 is 0.8, 100 is 0.1, 1200 is 1.2.                       *)

\* C4 (as the code has it): a disparate_impact score of exactly 0.8 gets
\* status "fail" from the service formatter, whose threshold comparison is
\* strict, and status "pass" from the utils formatter, whose range
\* [0.8, 1.2] is inclusive.
C4_BoundaryFailsStrictPassesRange ==
    fpc = "formatted" =>
        \A i \in DOMAIN metrics :
            metrics[i] = <<"disparate_impact", Fin(800)>> =>
                /\ svcOut.ok => svcOut.val[i].status = "fail"
                /\ utilOut.val[i].status = "pass"

\* C4 as stated: a disparate_impact score of exactly 0.8 gets status "pass"
\* from the service formatter and status "pass" from the utils formatter.
C4_AsStated ==
    fpc = "formatted" =>
        \A i \in DOMAIN metrics :
            metrics[i] = <<"disparate_impact", Fin(800)>> =>
                /\ svcOut.ok => svcOut.val[i].status = "pass"
                /\ utilOut.val[i].status = "pass"

\* C4 witness: both formatters have formatted a dict whose disparate_impact
\* is exactly 0.8.
C4_Witness ==
    /\ fpc = "formatted"
    /\ svcOut.ok
    /\ \E i \in DOMAIN metrics :
          /\ metrics[i] = <<"disparate_impact", Fin(800)>>
          /\ svcOut.val[i].threshold = 800

\* C5: for every metric name with a fixed threshold and every finite score:
\* the service formatter reports "pass" for disparate_impact iff the score
\* is above the threshold, the utils formatter iff the score is in
\* [0.8, 1.2]; for every other metric both report "pass" iff the absolute
\* score is below the threshold, and "fail" otherwise.  The threshold
\* attached is 0.8 for disparate_impact and 0.1 for statistical_disparity.
C5_StatusFollowsThreshold ==
    fpc = "formatted" =>
        \A i \in DOMAIN metrics :
            LET name  == metrics[i][1]
                score == metrics[i][2]
                PassIff(b) == IF b THEN "pass" ELSE "fail"
            IN  IsFinite(score) =>
                /\ (svcOut.ok /\ name \in DOMAIN ServiceThresholds) =>
                     LET e == svcOut.val[i]
                     IN  /\ name = "disparate_impact" =>
                               /\ e.threshold = 800
                               /\ e.status = PassIff(score.v > e.threshold)
                         /\ name = "statistical_disparity" => e.threshold = 100
                         /\ name # "disparate_impact" =>
                               e.status = PassIff(Abs(score.v) < e.threshold)
                /\ name \in DOMAIN UtilsThresholds =>
                     LET u == utilOut.val[i]
                     IN  /\ name = "disparate_impact" =>
                               /\ u.threshold = 800
                               /\ u.status = PassIff(800 <= score.v /\ score.v <= 1200)
                         /\ name = "statistical_disparity" => u.threshold = 100
                         /\ name # "disparate_impact" =>
                               u.status = PassIff(Abs(score.v) < u.threshold)

\* C5 witness: both formatters have formatted a disparate_impact of 1.201
\* (pass in the service, fail in utils) and a statistical_disparity of
\* -0.099 (pass in both).
C5_Witness ==
    /\ fpc = "formatted"
    /\ svcOut.ok
    /\ metrics = << <<"disparate_impact", Fin(1201)>>,
                    <<"statistical_disparity", Fin(-99)>> >>
    /\ svcOut.val[1].status = "pass"
    /\ utilOut.val[1].status = "fail"
    /\ svcOut.val[2].status = "pass"

\* C6: the output of the service's format_results_for_output has one entry
\* per input metric, in input order; the entry's score is None iff the
\* metric's score is NaN, +Infinity or -Infinity, and a finite score is
\* reported unchanged.
C6_ScoreNoneIffNotFinite ==
    (fpc \in {"service", "formatted"} /\ svcOut.ok) =>
        /\ Len(svcOut.val) = Len(metrics)
        /\ \A i \in DOMAIN metrics :
              /\ svcOut.val[i].metric_name = DisplayName(metrics[i][1])
              /\ svcOut.val[i].score = NoneScore
                    <=> metrics[i][2] \in {NaNScore, PosInf, NegInf}
              /\ IsFinite(metrics[i][2]) => svcOut.val[i].score = metrics[i][2]

\* C6 witness: the service formatter has formatted a dict with a finite
\* score followed by -Infinity.
C6_Witness ==
    /\ fpc = "service"
    /\ svcOut.ok
    /\ Len(metrics) = 2
    /\ IsFinite(metrics[1][2])
    /\ metrics[2][2] = NegInf
    /\ svcOut.val[2].score = NoneScore

\* C21 as stated: in the output of the service's
\* format_results_for_output, an entry whose score is reported as
\* unavailable (None, for NaN, +Infinity or -Infinity) never has status
\* "pass", whatever the metric.
C21_AsStated ==
    (fpc \in {"service", "formatted"} /\ svcOut.ok) =>
        \A i \in DOMAIN svcOut.val :
            svcOut.val[i].score = NoneScore => svcOut.val[i].status # "pass"

-----------------------------------------------------------------------------
(* Properties of the model-update collector (SpecCollector).               *)

\* C7: frontier_model_updates never holds two rows with the same
\* source_url.  When a run commits its batch, every record of the batch is
\* in the table as the one row with its source_url, carrying the record's
\* title, description, update_type and update_date; a row that was there
\* under that source_url before is that same row rewritten (no row is
\* added for it), and every other row is left as it was.
C7_UpsertKeepsOneRowPerUrl ==
    [][ /\ \A a, b \in table' : a.source_url = b.source_url => a = b
        /\ (cpc = "executed" /\ cpc' = "done") =>
              LET written == {results[i].source_url : i \in DOMAIN results}
                  before  == {old.source_url : old \in table}
              IN  /\ \A i \in DOMAIN results :
                        \E row \in table' :
                           /\ row.source_url  = results[i].source_url
                           /\ row.title       = results[i].title
                           /\ row.description = results[i].description
                           /\ row.update_type = results[i].update_type
                           /\ row.update_date = results[i].update_date
                  /\ {row.source_url : row \in table'} = before \cup written
                  /\ Cardinality(table') = Cardinality(before \cup written)
                  /\ \A old \in table :
                        old.source_url \notin written => old \in table'
      ]_vars

\* C7 witness: a run has committed a record whose source_url an earlier run
\* had written with another title and update_type; the table has as many
\* rows as before.
C7_Witness ==
    /\ cpc = "done"
    /\ results # <<>>
    /\ Cardinality(table) = Cardinality(table0)
    /\ \E old \in table0 : \E new \in table :
          /\ old.source_url = new.source_url
          /\ old.title # new.title
          /\ old.update_type # new.update_type
          /\ \E i \in DOMAIN results :
                /\ results[i].source_url = new.source_url
                /\ results[i].title = new.title

\* C8 as stated: for every model and update category and every cap
\* max_results >= 0, the records emitted from the pair's feed are no more
\* than max_results.
C8_AsStated ==
    log.pair > 0 => Len(log.kept) <= cfg.max_results

\* C9 as stated: every emitted record comes from an entry that has a
\* publish timestamp not older than the cutoff.
C9_AsStated ==
    log.pair > 0 =>
        \A k \in Range(log.kept) :
            /\ ~log.entries[k].published_parsed.is_none
            /\ log.entries[k].published_parsed.val >= Cutoff(cfg)

\* C10: the committed rows of frontier_model_updates change only in the
\* commit that follows a scrape of every model and category and the
\* execution of the batch insert; a run that fails at any step ends with
\* the table as it was when the run connected, and closing the connection
\* leaves it so.
C10_FailedRunLeavesTableUnchanged ==
    [][ /\ table' # table =>
              /\ cpc = "executed" /\ cpc' = "done"
              /\ pair > 2 * Len(models)
              /\ table' = pending.rows
        /\ cpc' = "aborted" => table' = table0'
        /\ cpc = "aborted" => table' = table0
      ]_vars

\* C10 witness: the commit of an executed batch that changes the table has
\* failed.
C10_Witness ==
    /\ cpc = "aborted"
    /\ pending.open
    /\ pending.rows # table
    /\ table # {}
    /\ table = table0

\* C19 as stated: a feed entry is kept only if its 0-based position in the
\* feed, skipped entries included, is below max_results.
C19_AsStated ==
    log.pair > 0 =>
        \A k \in Range(log.kept) : k - 1 < cfg.max_results

\* C19, amended: the cap counts the entries kept, not the positions of the
\* feed: an entry is kept only if fewer than max_results of the entries
\* before it in the feed were dated and not older than the cutoff as the
\* collector computes it, or none was; undated and old entries do not
\* count, so a kept entry can stand at any position of the feed.
C19_CapCountsKeptEntries ==
    log.pair > 0 =>
        \A k \in Range(log.kept) :
            LET before == {j \in 1..(k - 1) :
                              /\ ~log.entries[j].published_parsed.is_none
                              /\ Published(log.entries[j], cfg) >= Cutoff(cfg)}
            IN  /\ k \in DOMAIN log.entries
                /\ before \subseteq Range(log.kept)
                /\ Cardinality(before) < cfg.max_results \/ before = {}

\* C19 witness: with max_results = 1 the entry kept is the second of the
\* feed, after an undated one.
C19_Witness ==
    /\ log.pair > 0
    /\ cfg.max_results = 1
    /\ Len(log.entries) = 2
    /\ log.entries[1].published_parsed.is_none
    /\ log.kept = <<2>>

\* C22 as stated: the batch of records one run of scrape_model_updates
\* hands to the upsert statement holds no two records with the same
\* source_url, even when the same link is returned for both update
\* categories of a model.
C22_AsStated ==
    (cpc = "scraping" /\ pair > 2 * Len(models)) =>
        \A i, j \in DOMAIN results :
            results[i].source_url = results[j].source_url => i = j

-----------------------------------------------------------------------------
(* Properties of the upload endpoints (SpecUpload).                        *)

\* C11 as stated: on POST /analyze/file an upload whose extension is not
\* .csv/.xlsx/.xls, or whose group_mappings is not valid JSON, is answered
\* with status 400 and a descriptive message, and no analysis is started.
C11_AsStated ==
    ( /\ upc = "responded"
      /\ upload.endpoint = "file"
      /\ \/ Lower(upload.filename.ext) \notin {".csv", ".xlsx", ".xls"}
         \/ upload.parses /\ upload.group_mappings = "invalid" )
    => /\ uresp.status = 400
       /\ uresp.detail # <<>>
       /\ uresp.entries = <<>>
       /\ task = "none"

\* C13 as stated: a zipped batch whose archive opens is answered with the
\* CSV, which holds an entry tagged with the name of every data file of
\* the archive, an error entry for a file that failed to parse: no file's
\* failure aborts the batch.
C13_AsStated ==
    ( /\ upc = "responded"
      /\ upload.endpoint = "folder"
      /\ IsZipName(upload.filename)
      /\ upload.archive.valid )
    => /\ uresp.status = 200
       /\ \A i \in DOMAIN upload.archive.files :
             IsDataName(upload.archive.files[i].name) =>
                \E k \in DOMAIN uresp.entries :
                   /\ uresp.entries[k].file = upload.archive.files[i].name
                   /\ ~upload.archive.files[i].parses
                         => uresp.entries[k].kind = "error"

\* C14: on POST /analyze/folder an upload whose file name does not end in
\* .zip, whatever the case of its letters, never has a temporary directory
\* created, a byte written or an archive extracted for it, and is answered
\* with a 400 and a message.
C14_NonZipRejectedBeforeAnyWork ==
    ( /\ upload.endpoint = "folder"
      /\ Lower(upload.filename.ext) # ".zip" )
    => /\ tmpdir.state = "none"
       /\ ~tmpdir.zip_written
       /\ ~tmpdir.extracted
       /\ upc \in {"received", "responded"}
       /\ upc = "responded" =>
             /\ uresp.status = 400
             /\ uresp.detail # <<>>
             /\ uresp.entries = <<>>

\* C14 witness: a folder upload named data.csv that holds a good archive
\* has been answered.
C14_Witness ==
    /\ upc = "responded"
    /\ upload.endpoint = "folder"
    /\ upload.filename = Name("data", ".csv")
    /\ upload.archive.valid
    /\ upload.archive.files # <<>>
    /\ uresp.status = 400

\* C15: a file or batch request always terminates: once the handler has
\* called run_bias_analysis for an uploaded table, the analysis is driven
\* to completion and the handler goes on to return its response.
C15_AsStated ==
    (upc = "call" /\ upload.endpoint \in {"file", "folder"}) ~> (upc = "responded")

\* C16: on POST /analyze/folder the temporary directory that held the
\* uploaded archive and its extracted files no longer exists once the
\* handler has been left, whether it returned its CSV, raised or was
\* cancelled.
C16_TempDirRemovedOnEveryExit ==
    ( /\ upc \in {"responded", "cancelled"}
      /\ upload.endpoint = "folder" )
    => /\ tmpdir.state # "exists"
       /\ (upc = "cancelled" \/ tmpdir.zip_written \/ tmpdir.extracted)
             => tmpdir.state = "removed"

\* C16 witness: the handler was left by an exception raised while a member
\* of the extracted archive was being read, after the archive was written
\* and extracted.
C16_Witness ==
    /\ upc = "responded"
    /\ upload.endpoint = "folder"
    /\ uresp.status = 500
    /\ tmpdir.zip_written
    /\ tmpdir.extracted
    /\ tmpdir.state = "removed"

-----------------------------------------------------------------------------
(* Properties of the encoding of the other columns (SpecEncode).           *)

\* C17 as stated: a column that is no protected attribute and does not
\* convert to numbers is replaced by integer codes 0, 1, 2, ... given to
\* its distinct values in the order in which they first appear, equal
\* values getting equal codes.
C17_AsStated ==
    (epc \in {"preprocessed", "mapped", "encoded"} /\ ~to_numeric(column).ok) =>
        /\ Len(series.vals) = Len(rows_kept)
        /\ \A i \in DOMAIN rows_kept :
              series.vals[i] = IndexOf(Unique(column), column[rows_kept[i]])

\* C17, amended: such a column is replaced by integer codes: the code of a
\* value is the number of distinct values of the column whose string sorts
\* before its own, so that equal values get equal codes and the n distinct
\* values get exactly 0..n-1 in sorted order, not in the order of first
\* appearance.  Rows dropped later by the mapping of a protected attribute
\* leave the codes of the other rows as they were.
C17_CodesFollowSortedOrder ==
    (epc \in {"preprocessed", "mapped", "encoded"} /\ ~to_numeric(column).ok) =>
        /\ series.dtype = "int64"
        /\ Len(series.vals) = Len(rows_kept)
        /\ epc = "preprocessed" =>
              /\ rows_kept = [i \in DOMAIN column |-> i]
              /\ Range(series.vals) = 0..(Cardinality(Range(column)) - 1)
        /\ \A i \in DOMAIN rows_kept :
              series.vals[i] =
                 Cardinality({v \in Range(column) :
                                IndexOf(ValueOrder, Str(v))
                                   < IndexOf(ValueOrder, Str(column[rows_kept[i]]))})

\* C17 witness: the column b, a, b has been encoded as 1, 0, 1.
C17_Witness ==
    /\ epc = "encoded"
    /\ column = <<"b", "a", "b">>
    /\ series.vals = <<1, 0, 1>>

=============================================================================
